---- MODULE Spec2Model ----
(***************************************************************************)
(* Model of the line-protocol export encoder                               *)
(* (cmd/freets_tools/internal/format/text/writer.go): the Writer, the      *)
(* bufio.Writer it wraps, and the underlying io.Writer that may fail.      *)
(* A byte is a one-character string, a byte slice a sequence of them.      *)
(* Specification Spec.                                                     *)
(*                                                                         *)
(* And of the HTTP service's listener (services/httpd/service.go): Open,   *)
(* Close, Addr and the serve goroutine with its error channel.             *)
(* Specification ServiceSpec.                                              *)
(***************************************************************************)
EXTENDS Integers, Sequences, FiniteSets, TLC

VARIABLES
    m,      \* Writer.m: the mode, fixed by NewWriter
    err,    \* Writer.err: the error latch
    key,    \* Writer.key: [arr |-> written prefix of the backing array, len |-> visible length]
    wbuf,   \* Writer.w: the bytes bufio.Writer holds (buf[0:n])
    werr,   \* Writer.w: bufio.Writer's sticky error
    out,    \* the bytes the underlying io.Writer has accepted
    sent,   \* the bytes the Writer has passed to w.w.Write and w.w.WriteByte so far
    ufail,  \* whether a write of the underlying io.Writer has returned an error
    op,     \* the last call made on the Writer
    log,    \* what the last call did: cursor fetches, line writes, underlying writes
    ret,    \* what the last call returned (Close, Err), None otherwise
    https,  \* Service.https
    ln,     \* Service.ln: 0 for nil, else the number of the listener
    lns,    \* the listeners made so far: "open" or "closed"
    gs,     \* the serve goroutines started so far: [pc, l, e]
    rcvd,   \* what receivers have read from the channel Service.err
    sop     \* the last call made on the Service and what it returned

writerVars == <<m, err, key, wbuf, werr, out, sent, ufail, op, log, ret>>

serviceVars == <<https, ln, lns, gs, rcvd, sop>>

vars == <<m, err, key, wbuf, werr, out, sent, ufail, op, log, ret,
          https, ln, lns, gs, rcvd, sop>>

----------------------------------------------------------------------------
(* Bounds of the model. *)

\* bufio.Writer's buffer size (4096 in the program), scaled down
BufSize == 6
\* no call is started once this many bytes have been handed to the sink
MaxOut == 9
\* the underlying writer's fault is injected at one of its first MaxFailAt+1 writes of a call
MaxFailAt == 1
\* a faulty underlying write accepts at most this many bytes
MaxPartial == 1

----------------------------------------------------------------------------
(* Program constants. *)

Series == FALSE
Values == TRUE
\* make([]byte, 1024)
KeyCap == 1024

None == "nil"
\* the error of a failing underlying io.Writer
EIO == "EIO"
\* io.ErrShortWrite, which bufio's Flush reports for a short write without error
ErrShortWrite == "short write"

NUL == "\\0"

Min(a, b) == IF a < b THEN a ELSE b

----------------------------------------------------------------------------
(* strconv *)

DigitChars == <<"0", "1", "2", "3", "4", "5", "6", "7", "8", "9">>

RECURSIVE FormatUint(_)
FormatUint(u) ==
    IF u < 10 THEN <<DigitChars[u + 1]>>
    ELSE FormatUint(u \div 10) \o <<DigitChars[(u % 10) + 1]>>

AppendUint(dst, u) == dst \o FormatUint(u)

AppendInt(dst, i) ==
    IF i < 0 THEN dst \o <<"-">> \o FormatUint(-i) ELSE dst \o FormatUint(i)

AppendBool(dst, b) ==
    IF b THEN dst \o <<"t", "r", "u", "e">> ELSE dst \o <<"f", "a", "l", "s", "e">>

(* A float64 is given by what strconv's shortest-decimal conversion finds for *)
(* it: sign, digits d (none for zero), and the position dp of the decimal    *)
(* point (kind "finite"); kind "NaN", "+Inf" or "-Inf" otherwise.            *)
IsSpecialFloat(f) == f.kind # "finite"

Digits(d, from, to) == [i \in 1..(IF to >= from THEN to - from + 1 ELSE 0) |-> DigitChars[d[from + i - 1] + 1]]

Zeros(n) == [i \in 1..(IF n > 0 THEN n ELSE 0) |-> "0"]

\* %f with prec fraction digits
FmtF(neg, d, dp, prec) ==
    LET nd == Len(d)
        int == IF dp > 0
               THEN Digits(d, 1, Min(nd, dp)) \o Zeros(dp - Min(nd, dp))
               ELSE <<"0">>
        frac == IF prec > 0
                THEN <<".">> \o [i \in 1..prec |->
                        IF dp + i >= 1 /\ dp + i <= nd THEN DigitChars[d[dp + i] + 1] ELSE "0"]
                ELSE <<>>
    IN (IF neg THEN <<"-">> ELSE <<>>) \o int \o frac

\* %e with prec digits after the point
FmtE(neg, d, dp, prec) ==
    LET nd == Len(d)
        first == IF nd # 0 THEN <<DigitChars[d[1] + 1]>> ELSE <<"0">>
        rest == IF prec > 0
                THEN <<".">> \o Digits(d, 2, Min(nd, prec + 1))
                         \o Zeros(prec + 1 - (IF Min(nd, prec + 1) > 1 THEN Min(nd, prec + 1) ELSE 1))
                ELSE <<>>
        exp == IF nd = 0 THEN 0 ELSE dp - 1
        mag == IF exp < 0 THEN -exp ELSE exp
        expDigits == IF mag < 10 THEN <<"0">> \o FormatUint(mag) ELSE FormatUint(mag)
    IN (IF neg THEN <<"-">> ELSE <<>>) \o first \o rest
         \o <<"e">> \o (IF exp < 0 THEN <<"-">> ELSE <<"+">>) \o expDigits

\* strconv.AppendFloat(dst, f, 'g', -1, 64)
AppendFloat(dst, f) ==
    IF IsSpecialFloat(f)
    THEN dst \o (CASE f.kind = "NaN" -> <<"N", "a", "N">>
                   [] f.kind = "+Inf" -> <<"+", "I", "n", "f">>
                   [] OTHER -> <<"-", "I", "n", "f">>)
    ELSE LET nd == Len(f.d)
             exp == f.dp - 1
         IN IF exp < -4 \/ exp >= 6
            THEN dst \o FmtE(f.neg, f.d, f.dp, nd - 1)
            ELSE dst \o FmtF(f.neg, f.d, f.dp, IF nd - f.dp > 0 THEN nd - f.dp ELSE 0)

----------------------------------------------------------------------------
(* models and pkg/escape: the escaping the encoder calls *)

RECURSIVE EscapeWith(_, _)
EscapeWith(b, special) ==
    IF Len(b) = 0 THEN <<>>
    ELSE (IF Head(b) \in special THEN <<"\\", Head(b)>> ELSE <<Head(b)>>)
             \o EscapeWith(Tail(b), special)

\* escape.Bytes: commas, spaces and equals signs
EscapeBytes(b) == EscapeWith(b, {",", " ", "="})

\* models.EscapeStringField: double quotes and backslashes
EscapeStringField(b) == EscapeWith(b, {"\"", "\\"})

RECURSIVE AppendHashKey(_, _)
AppendHashKey(dst, tags) ==
    IF Len(tags) = 0 THEN dst
    ELSE AppendHashKey(dst \o <<",">> \o EscapeBytes(Head(tags)[1]) \o <<"=">>
                           \o EscapeBytes(Head(tags)[2]), Tail(tags))

\* models.AppendMakeKey(dst, name, tags): escaped name, then ",k=v" per tag in the tags' order
AppendMakeKey(dst, name, tags) == AppendHashKey(dst \o EscapeBytes(name), tags)
----------------------------------------------------------------------------
(* The state the encoder's calls work on is the record                       *)
(*   [m, err, key, wbuf, werr, out, sent, ufail, plan, log, buf]             *)
(* of the variables of the same names, plus buf, a typed Write's local       *)
(* slice (buf := w.key), and plan: the behaviour of the                      *)
(* underlying io.Writer during the call. plan.at counts the underlying       *)
(* writes still to succeed before the faulty one (NoFault: none is faulty);  *)
(* the faulty write accepts min(plan.n, len(p)) bytes and returns plan.err.  *)

NoFault == -1

\* an entry of log: e is "Next" (a fetch returning len pairs), "Write" or
\* "WriteByte" (len bytes passed to the bufio.Writer, which returned err), or
\* "U" (len bytes passed to the underlying writer, which returned n, err)
Event(e, len, n, er) == [e |-> e, len |-> len, n |-> n, err |-> er]

\* io.Writer.Write(p) of the underlying writer
UnderlyingWrite(s, p) ==
    LET faulty == s.plan.at = 0
        n == IF faulty THEN Min(s.plan.n, Len(p)) ELSE Len(p)
        er == IF faulty THEN s.plan.err ELSE None
    IN [s |-> [s EXCEPT !.out = @ \o SubSeq(p, 1, n),
                        !.plan.at = IF @ >= 0 THEN @ - 1 ELSE @,
                        !.ufail = @ \/ er # None,
                        !.log = Append(@, Event("U", Len(p), n, er))],
        n |-> n, err |-> er]

\* bufio.Writer.Available
Available(s) == BufSize - Len(s.wbuf)

\* bufio.Writer.Flush
BufioFlush(s) ==
    IF s.werr # None THEN [s |-> s, err |-> s.werr]
    ELSE IF Len(s.wbuf) = 0 THEN [s |-> s, err |-> None]
    ELSE LET r == UnderlyingWrite(s, s.wbuf)
             er == IF r.n < Len(s.wbuf) /\ r.err = None THEN ErrShortWrite ELSE r.err
         IN IF er # None
            THEN [s |-> [r.s EXCEPT !.wbuf = SubSeq(@, r.n + 1, Len(@)), !.werr = er],
                  err |-> er]
            ELSE [s |-> [r.s EXCEPT !.wbuf = <<>>], err |-> None]

\* bufio.Writer.Write
RECURSIVE BufioWrite(_, _)
BufioWrite(s, p) ==
    IF Len(p) > Available(s) /\ s.werr = None
    THEN IF Len(s.wbuf) = 0
         THEN \* large write, empty buffer: written directly from p
              LET r == UnderlyingWrite(s, p)
              IN BufioWrite([r.s EXCEPT !.werr = r.err], SubSeq(p, r.n + 1, Len(p)))
         ELSE LET n == Min(Available(s), Len(p))
                  filled == [s EXCEPT !.wbuf = @ \o SubSeq(p, 1, n)]
              IN BufioWrite(BufioFlush(filled).s, SubSeq(p, n + 1, Len(p)))
    ELSE IF s.werr # None THEN [s |-> s, err |-> s.werr]
    ELSE [s |-> [s EXCEPT !.wbuf = @ \o p], err |-> None]

\* bufio.Writer.WriteByte
BufioWriteByte(s, c) ==
    IF s.werr # None THEN [s |-> s, err |-> s.werr]
    ELSE LET f == IF Available(s) <= 0 THEN BufioFlush(s) ELSE [s |-> s, err |-> None]
         IN IF f.err # None THEN [s |-> f.s, err |-> f.s.werr]
            ELSE [s |-> [f.s EXCEPT !.wbuf = Append(@, c)], err |-> None]
----------------------------------------------------------------------------
(* The encoder: Writer's methods on the record described above (with m). *)

\* writing rec from index 0 of the backing array, as append(buf[:0], ...) does
\* while the record fits the capacity (every record of the model does)
Overlay(arr, rec) == rec \o SubSeq(arr, Len(rec) + 1, Len(arr))

\* the visible content of the scratch buffer w.key, or of a slice of its array
KeyBytes(k) == [i \in 1..k.len |-> IF i <= Len(k.arr) THEN k.arr[i] ELSE NUL]

\* a slice that keeps its length where the code takes buf[:0]
TruncateKeepsLength(b) == b

\* b[:0]: the same backing array, length zero
Truncate(b) == [arr |-> b.arr, len |-> 0]

\* append(b, bytes...): bytes follow the visible content in the backing array
AppendBytes(b, bytes) ==
    [arr |-> KeyBytes(b) \o Overlay(SubSeq(b.arr, b.len + 1, Len(b.arr)), bytes),
     len |-> b.len + Len(bytes)]

\* BeginSeries in Series mode: the key is built in w.key and written, then '\n'
WriteKey(s, name, field, tags) ==
    LET k1 == AppendBytes(Truncate(s.key), AppendMakeKey(<<>>, name, tags))
        k2 == AppendBytes(k1, <<" ">>)
        k3 == AppendBytes(k2, EscapeBytes(field))
        keyed == [s EXCEPT !.key = k3]
        w1 == BufioWrite([keyed EXCEPT !.sent = @ \o KeyBytes(keyed.key)], KeyBytes(keyed.key))
        s1 == [w1.s EXCEPT !.log = Append(@, Event("Write", k3.len, k3.len, w1.err))]
        w2 == BufioWriteByte([s1 EXCEPT !.sent = Append(@, "\n")], "\n")
    IN [w2.s EXCEPT !.log = Append(@, Event("WriteByte", 1, 1, w2.err))]

\* BeginSeries starting every series with the latch cleared
BeginSeriesClearsLatch(s, name, field, tags) ==
    IF s.m = Series THEN WriteKey([s EXCEPT !.err = None], name, field, tags)
    ELSE [s EXCEPT !.err = None]

\* BeginSeries without the test of the mode: the key line is written in Values mode too
BeginSeriesInAnyMode(s, name, field, tags) ==
    IF s.err # None THEN s ELSE WriteKey(s, name, field, tags)

\* Writer.BeginSeries(name, field, typ, tags)
BeginSeries(s, name, field, tags) ==
    IF s.err # None THEN s
    ELSE IF s.m = Series THEN WriteKey(s, name, field, tags)
    ELSE s

\* the bytes a typed Write method appends to buf[:0] for one point
PointLine(typ, v, t) ==
    CASE typ = "Integer" -> AppendInt(AppendInt(<<>>, v) \o <<"i", " ">>, t) \o <<"\n">>
      [] typ = "Float" -> AppendInt(AppendFloat(<<>>, v) \o <<" ">>, t) \o <<"\n">>
      [] typ = "Unsigned" -> AppendInt(AppendUint(<<>>, v) \o <<"u", " ">>, t) \o <<"\n">>
      [] typ = "Boolean" -> AppendInt(AppendBool(<<>>, v) \o <<" ">>, t) \o <<"\n">>
      [] typ = "String" -> AppendInt(<<"\"">> \o EscapeStringField(v) \o <<"\"", " ">>, t) \o <<"\n">>

\* WriteBatch without the return on a failed write: the loop goes on to the next pair
RECURSIVE WriteBatchNoReturn(_, _, _, _)
WriteBatchNoReturn(s, a, i, typ) ==
    IF i > Len(a) THEN s
    ELSE LET b == AppendBytes(Truncate(s.buf), PointLine(typ, a[i].v, a[i].t))
             s0 == [s EXCEPT !.buf = b,
                             !.key.arr = IF b.len <= KeyCap THEN b.arr ELSE @,
                             !.sent = @ \o KeyBytes(b)]
             w == BufioWrite(s0, KeyBytes(b))
             s1 == [w.s EXCEPT !.err = w.err,
                               !.log = Append(@, Event("Write", b.len, b.len, w.err))]
         IN WriteBatchNoReturn(s1, a, i + 1, typ)

\* for i := range a.Timestamps { ... }: the lines of batch a from index i on;
\* s.buf is the local slice buf, which shares w.key's backing array while the
\* line fits its capacity
RECURSIVE WriteBatch(_, _, _, _)
WriteBatch(s, a, i, typ) ==
    IF i > Len(a) THEN s
    ELSE LET b == AppendBytes(Truncate(s.buf), PointLine(typ, a[i].v, a[i].t))
             s0 == [s EXCEPT !.buf = b,
                             !.key.arr = IF b.len <= KeyCap THEN b.arr ELSE @,
                             !.sent = @ \o KeyBytes(b)]
             w == BufioWrite(s0, KeyBytes(b))
             s1 == [w.s EXCEPT !.err = w.err,
                               !.log = Append(@, Event("Write", b.len, b.len, w.err))]
         IN IF s1.err # None THEN s1 ELSE WriteBatch(s1, a, i + 1, typ)

\* for { a := cur.Next(); ... }: the cursor's batches from the bi-th fetch on;
\* a cursor is the sequence of batches its Next returns, zero-length ever after
RECURSIVE DrainCursor(_, _, _, _)

\* DrainCursor with continue for break: a zero-length batch is skipped while the
\* cursor has more to return
DrainCursorSkipEmpty(s, cur, bi, typ) ==
    LET a == IF bi <= Len(cur) THEN cur[bi] ELSE <<>>
        s1 == [s EXCEPT !.log = Append(@, Event("Next", Len(a), 0, None))]
    IN IF Len(a) = 0
       THEN IF bi < Len(cur) THEN DrainCursor(s1, cur, bi + 1, typ) ELSE s1
       ELSE LET s2 == WriteBatch(s1, a, 1, typ)
            IN IF s2.err # None THEN s2 ELSE DrainCursor(s2, cur, bi + 1, typ)

\* DrainCursor without the outer loop: one batch is fetched and written
DrainCursorOneBatch(s, cur, bi, typ) ==
    LET a == IF bi <= Len(cur) THEN cur[bi] ELSE <<>>
        s1 == [s EXCEPT !.log = Append(@, Event("Next", Len(a), 0, None))]
    IN IF Len(a) = 0 THEN s1 ELSE WriteBatch(s1, a, 1, typ)

DrainCursor(s, cur, bi, typ) ==
    LET a == IF bi <= Len(cur) THEN cur[bi] ELSE <<>>
        s1 == [s EXCEPT !.log = Append(@, Event("Next", Len(a), 0, None))]
    IN IF Len(a) = 0 THEN s1
       ELSE LET s2 == WriteBatch(s1, a, 1, typ)
            IN IF s2.err # None THEN s2 ELSE DrainCursor(s2, cur, bi + 1, typ)

\* the guard without the test of the latch
SkipsInSeriesModeOnly(s) == s.m = Series

\* the guard without the test of the mode
SkipsWhenLatchedOnly(s) == s.err # None

\* the guard the five typed Write methods open with
Skips(s) == s.err # None \/ s.m = Series

WriteIntegerCursor(s, cur) ==
    IF Skips(s) THEN s ELSE DrainCursor([s EXCEPT !.buf = s.key], cur, 1, "Integer")
WriteFloatCursor(s, cur) ==
    IF Skips(s) THEN s ELSE DrainCursor([s EXCEPT !.buf = s.key], cur, 1, "Float")
WriteUnsignedCursor(s, cur) ==
    IF Skips(s) THEN s ELSE DrainCursor([s EXCEPT !.buf = s.key], cur, 1, "Unsigned")
WriteBooleanCursor(s, cur) ==
    IF Skips(s) THEN s ELSE DrainCursor([s EXCEPT !.buf = s.key], cur, 1, "Boolean")
WriteStringCursor(s, cur) ==
    IF Skips(s) THEN s ELSE DrainCursor([s EXCEPT !.buf = s.key], cur, 1, "String")

\* Close flushing again after an error: the sticky error is dropped first
CloseRetries(s) == BufioFlush([s EXCEPT !.werr = None])

\* Close returning the latch for the flush's result
CloseReturnsLatch(s) == [s |-> BufioFlush(s).s, err |-> s.err]

\* Close dropping the flush's result
CloseReturnsNil(s) == [s |-> BufioFlush(s).s, err |-> None]

\* Writer.Close
Close(s) == BufioFlush(s)

\* NewBucket handing out a fresh encoder for the bucket, as NewWriter makes it
NewBucketFresh(s, start, end) ==
    [w |-> [s EXCEPT !.err = None, !.key = [arr |-> <<>>, len |-> KeyCap],
                     !.wbuf = <<>>, !.werr = None],
     err |-> None]

\* Writer.NewBucket(start, end): the encoder returned (the receiver) and the error
NewBucket(s, start, end) == [w |-> s, err |-> None]

----------------------------------------------------------------------------
(* Inputs *)

Modes == {Series, Values}

Plans == {[at |-> NoFault, n |-> 0, err |-> None]}
           \cup [at : 0..MaxFailAt, n : 0..MaxPartial, err : {None, EIO}]

P(t, v) == [t |-> t, v |-> v]

Finite(neg, d, dp) == [kind |-> "finite", neg |-> neg, d |-> d, dp |-> dp]

\* name, field and tags (sorted by key) of the series given to BeginSeries
SeriesInputs ==
    { [name |-> <<"m">>, field |-> <<"f">>, tags |-> <<>>],
      [name |-> <<"a", " ">>, field |-> <<"f">>, tags |-> <<>>],
      [name |-> <<"c", ",">>, field |-> <<"x", " ", "y">>, tags |-> << <<<<"k">>, <<"v">>>> >>],
      [name |-> <<"n">>, field |-> <<"g">>, tags |-> << <<<<"a">>, <<"1">>>>, <<<<"b">>, <<"=">>>> >>] }

IntegerCursors ==
    { <<>>,
      << <<P(10, 100), P(20, 200)>> >>,
      << <<P(3, 1)>>, <<P(4, -2)>> >>,
      << <<P(3, 1)>>, <<>>, <<P(4, -2)>> >>,
      << <<>>, <<P(3, 1)>> >>,
      << <<P(-5, 7), P(6, 8)>>, <<P(9, 0)>> >> }

FloatCursors ==
    { <<>>,
      << <<P(5, Finite(FALSE, <<1, 5>>, 1))>> >>,
      << <<P(1, Finite(TRUE, <<2, 5>>, 0)), P(2, Finite(FALSE, <<1>>, 7))>>, <<>>,
         <<P(3, [kind |-> "NaN"])>> >> }

UnsignedCursors ==
    { <<>>,
      << <<P(1, 7)>>, <<P(2, 18)>> >> }

BooleanCursors ==
    { <<>>,
      << <<P(1, TRUE), P(2, FALSE)>> >> }

\* start and end of the buckets asked for
BucketTimes == {0, 10}

StringCursors ==
    { <<>>,
      << <<P(7, <<"a", "\"", "b">>)>> >>,
      << <<P(1, <<>>)>>, <<P(2, <<"\\">>)>> >> }

----------------------------------------------------------------------------
(* The HTTP service: Service.ln, its listeners and its serve goroutines *)

\* listeners a Service opens in the model
MaxListeners == 2

NoErr == <<>>
NilAddr == <<>>

\* the error of an operation on a closed listener (net.ErrClosed), in words
ErrClosed == <<"use", "of", "closed", "network", "connection">>
\* an error Accept fails with for good
ErrAccept == <<"accept", "tcp", "invalid", "argument">>
\* errors of Open
ErrCert == <<"tls", "failed", "to", "find", "any", "PEM", "data">>
ErrListen == <<"listen", "tcp", "address", "already", "in", "use">>

\* strings.Contains(err.Error(), "closed")
ContainsClosed(e) == \E i \in 1..Len(e) : e[i] = "closed"

\* net.Listener.Addr: the address the listener was bound to, open or closed
ListenerAddr(l) == <<"tcp", l>>

\* NewService
ServiceInit ==
    /\ https \in BOOLEAN
    /\ ln = 0
    /\ lns = <<>>
    /\ gs = <<>>
    /\ rcvd = <<>>
    /\ sop = [name |-> "NewService", ret |-> NoErr]

\* how the listener of an Open comes about
OpenOutcomes == (IF https THEN {ErrCert} ELSE {}) \cup {ErrListen, NoErr}

\* Service.Open: on success s.ln is the new listener and serve is started
ServiceOpen ==
    /\ Len(lns) < MaxListeners
    /\ \E outcome \in OpenOutcomes :
          /\ IF outcome = NoErr
             THEN /\ lns' = Append(lns, "open")
                  /\ ln' = Len(lns) + 1
                  /\ gs' = Append(gs, [pc |-> "start", l |-> 0, e |-> NoErr])
             ELSE UNCHANGED <<ln, lns, gs>>
          /\ sop' = [name |-> "Open", ret |-> outcome]
    /\ UNCHANGED <<https, rcvd>>
    /\ UNCHANGED writerVars

\* Service.Close: closes s.ln, which stays set
ServiceClose ==
    /\ IF ln # 0
       THEN /\ lns' = [lns EXCEPT ![ln] = "closed"]
            /\ sop' = [name |-> "Close",
                       ret |-> IF lns[ln] = "closed" THEN ErrClosed ELSE NoErr]
       ELSE /\ lns' = lns
            /\ sop' = [name |-> "Close", ret |-> NoErr]
    /\ UNCHANGED <<https, ln, gs, rcvd>>
    /\ UNCHANGED writerVars

\* Service.Addr's result for s.ln = l
Addr(l) == IF l # 0 THEN ListenerAddr(l) ELSE NilAddr

ServiceAddr ==
    /\ sop' = [name |-> "Addr", ret |-> Addr(ln)]
    /\ UNCHANGED <<https, ln, lns, gs, rcvd>>
    /\ UNCHANGED writerVars

\* serve sending every error of http.Serve, the listener's closure too
ReportsEveryError(e) == e # NoErr

\* serve's test: err != nil && !strings.Contains(err.Error(), "closed")
Reports(e) == e # NoErr /\ ~ContainsClosed(e)

\* the goroutine starts: http.Serve(s.ln, s.Handler) takes s.ln as it is now
ServeStart ==
    /\ \E g \in 1..Len(gs) :
          /\ gs[g].pc = "start"
          /\ gs' = [gs EXCEPT ![g] = [pc |-> "serving", l |-> ln, e |-> NoErr]]
    /\ UNCHANGED <<https, ln, lns, rcvd, sop>>
    /\ UNCHANGED writerVars

\* http.Serve returns: with ErrClosed once its listener is closed, or with a
\* failure of Accept; serve then blocks in the send or returns
ServeReturn ==
    /\ \E g \in 1..Len(gs) :
          /\ gs[g].pc = "serving"
          /\ \E e \in (IF lns[gs[g].l] = "closed" THEN {ErrClosed} ELSE {ErrAccept}) :
                gs' = [gs EXCEPT ![g].e = e,
                                 ![g].pc = IF Reports(e) THEN "sending" ELSE "done"]
    /\ UNCHANGED <<https, ln, lns, rcvd, sop>>
    /\ UNCHANGED writerVars

\* a receiver reads from Err(): the send of one blocked goroutine completes
\* (the channel is unbuffered) and serve returns
ErrReceive ==
    /\ \E g \in 1..Len(gs) :
          /\ gs[g].pc = "sending"
          /\ rcvd' = Append(rcvd, [from |-> g, e |-> gs[g].e, addr |-> Addr(ln)])
          /\ gs' = [gs EXCEPT ![g].pc = "done"]
    /\ UNCHANGED <<https, ln, lns, sop>>
    /\ UNCHANGED writerVars

ServiceNext ==
    \/ ServiceOpen
    \/ ServiceClose
    \/ ServiceAddr
    \/ ServeStart
    \/ ServeReturn
    \/ ErrReceive

----------------------------------------------------------------------------
(* The state machine *)

\* NewWriter(w, mode)
WriterInit ==
    /\ m \in Modes
    /\ err = None
    /\ key = [arr |-> <<>>, len |-> KeyCap]
    /\ wbuf = <<>>
    /\ werr = None
    /\ out = <<>>
    /\ sent = <<>>
    /\ ufail = FALSE
    /\ op = [name |-> "NewWriter", arg |-> <<>>]
    /\ log = <<>>
    /\ ret = None

\* a Writer, beside a Service without TLS that is left alone
Init == WriterInit /\ ServiceInit /\ ~https

\* a Service, with or without TLS, beside a Writer that is left alone
ServiceStart == WriterInit /\ ServiceInit

\* the Writer as a call finds it, the underlying writer following plan
Entry(plan) ==
    [m |-> m, err |-> err, key |-> key, wbuf |-> wbuf, werr |-> werr, out |-> out,
     sent |-> sent, ufail |-> ufail, plan |-> plan, log |-> <<>>, buf |-> key]

\* the Writer as the call leaves it
Leave(s) ==
    /\ m' = s.m
    /\ err' = s.err
    /\ key' = s.key
    /\ wbuf' = s.wbuf
    /\ werr' = s.werr
    /\ out' = s.out
    /\ sent' = s.sent
    /\ ufail' = s.ufail
    /\ log' = s.log
    /\ UNCHANGED serviceVars

\* the driver stops once MaxOut bytes have been handed to the sink
Open == Len(sent) < MaxOut

DoBeginSeries ==
    /\ Open
    /\ \E in \in SeriesInputs, plan \in Plans :
          /\ Leave(BeginSeries(Entry(plan), in.name, in.field, in.tags))
          /\ op' = [name |-> "BeginSeries", arg |-> in]
    /\ ret' = None

DoEndSeries ==
    /\ op' = [name |-> "EndSeries", arg |-> <<>>]
    /\ log' = <<>>
    /\ ret' = None
    /\ UNCHANGED <<m, err, key, wbuf, werr, out, sent, ufail>>
    /\ UNCHANGED serviceVars

DoWriteIntegerCursor ==
    /\ Open
    /\ \E cur \in IntegerCursors, plan \in Plans :
          /\ Leave(WriteIntegerCursor(Entry(plan), cur))
          /\ op' = [name |-> "WriteIntegerCursor", arg |-> cur]
    /\ ret' = None

DoWriteFloatCursor ==
    /\ Open
    /\ \E cur \in FloatCursors, plan \in Plans :
          /\ Leave(WriteFloatCursor(Entry(plan), cur))
          /\ op' = [name |-> "WriteFloatCursor", arg |-> cur]
    /\ ret' = None

DoWriteUnsignedCursor ==
    /\ Open
    /\ \E cur \in UnsignedCursors, plan \in Plans :
          /\ Leave(WriteUnsignedCursor(Entry(plan), cur))
          /\ op' = [name |-> "WriteUnsignedCursor", arg |-> cur]
    /\ ret' = None

DoWriteBooleanCursor ==
    /\ Open
    /\ \E cur \in BooleanCursors, plan \in Plans :
          /\ Leave(WriteBooleanCursor(Entry(plan), cur))
          /\ op' = [name |-> "WriteBooleanCursor", arg |-> cur]
    /\ ret' = None

DoWriteStringCursor ==
    /\ Open
    /\ \E cur \in StringCursors, plan \in Plans :
          /\ Leave(WriteStringCursor(Entry(plan), cur))
          /\ op' = [name |-> "WriteStringCursor", arg |-> cur]
    /\ ret' = None

\* the calls that follow are made on the encoder NewBucket returned
DoNewBucket ==
    /\ \E start \in BucketTimes, end \in BucketTimes, plan \in {[at |-> NoFault, n |-> 0, err |-> None]} :
          LET r == NewBucket(Entry(plan), start, end)
          IN /\ Leave(r.w)
             /\ ret' = r.err
             /\ op' = [name |-> "NewBucket", arg |-> <<start, end>>]

DoClose ==
    /\ \E plan \in Plans :
          LET r == Close(Entry(plan))
          IN /\ Leave(r.s)
             /\ ret' = r.err
    /\ op' = [name |-> "Close", arg |-> <<>>]

\* Writer.Err
DoErr ==
    /\ op' = [name |-> "Err", arg |-> <<>>]
    /\ log' = <<>>
    /\ ret' = err
    /\ UNCHANGED <<m, err, key, wbuf, werr, out, sent, ufail>>
    /\ UNCHANGED serviceVars

Next ==
    \/ DoBeginSeries
    \/ DoEndSeries
    \/ DoWriteIntegerCursor
    \/ DoWriteFloatCursor
    \/ DoWriteUnsignedCursor
    \/ DoWriteBooleanCursor
    \/ DoWriteStringCursor
    \/ DoNewBucket
    \/ DoClose
    \/ DoErr

Spec == Init /\ [][Next]_vars

ServiceSpec == ServiceStart /\ [][ServiceNext]_vars
----------------------------------------------------------------------------
(* Vocabulary of the properties *)

TypedWrites == {"WriteIntegerCursor", "WriteFloatCursor", "WriteUnsignedCursor",
                "WriteBooleanCursor", "WriteStringCursor"}

TypeOf(name) ==
    CASE name = "WriteIntegerCursor" -> "Integer"
      [] name = "WriteFloatCursor" -> "Float"
      [] name = "WriteUnsignedCursor" -> "Unsigned"
      [] name = "WriteBooleanCursor" -> "Boolean"
      [] name = "WriteStringCursor" -> "String"

\* the entries of l of kind e
Count(l, e) == Cardinality({i \in 1..Len(l) : l[i].e = e})

\* some line write of the call failed
LineWriteFailed(l) == \E i \in 1..Len(l) : l[i].e \in {"Write", "WriteByte"} /\ l[i].err # None

\* every underlying write of the call accepted all it was given, without error
SinkSound(l) == \A i \in 1..Len(l) : l[i].e = "U" => (l[i].err = None /\ l[i].n = l[i].len)

\* the number of batches a cursor returns before its first zero-length batch
RECURSIVE LiveBatches(_)
LiveBatches(cur) ==
    IF Len(cur) = 0 \/ Len(Head(cur)) = 0 THEN 0 ELSE 1 + LiveBatches(Tail(cur))

\* one line per pair of the first k batches, in batch order, then index order
RECURSIVE LinesOf(_, _, _)
LinesOf(typ, cur, k) ==
    IF k = 0 THEN <<>>
    ELSE LET a == cur[k]
             F[i \in 0..Len(a)] ==
                 IF i = 0 THEN <<>> ELSE F[i - 1] \o PointLine(typ, a[i].v, a[i].t)
         IN LinesOf(typ, cur, k - 1) \o F[Len(a)]

\* the pairs of the first k batches
RECURSIVE Pairs(_, _)
Pairs(cur, k) == IF k = 0 THEN 0 ELSE Pairs(cur, k - 1) + Len(cur[k])

ExampleCursor == << <<P(10, 100), P(20, 200)>> >>
ExampleOutput ==
    <<"1", "0", "0", "i", " ", "1", "0", "\n", "2", "0", "0", "i", " ", "2", "0", "\n">>

----------------------------------------------------------------------------
(* The claims *)

\* C1: once the latch is set, no call (BeginSeries, a typed Write, NewBucket,
\* EndSeries, Close, Err) adds a byte to the buffered sink or to the underlying
\* writer's output.
C1_NoByteAfterLatch == [][err # None => (out' = out /\ wbuf' = wbuf /\ sent' = sent)]_vars

\* a Close on a latched Writer whose buffer still holds bytes
C1_Witness == err # None /\ op.name = "Close" /\ Len(wbuf) > 0

\* C2: in Values mode, a failed write of a point line is the last thing the typed
\* Write call does: no further line is written, Next is not called again, and
\* the latch holds the error that write returned.
C2_FailedWriteEndsCall ==
    (op.name \in TypedWrites /\ m = Values) =>
        \A i \in 1..Len(log) :
            (log[i].e = "Write" /\ log[i].err # None) =>
                /\ i = Len(log)
                /\ err = log[i].err
                /\ err # None

\* a typed Write whose first line write failed with pairs and batches still to come
C2_Witness ==
    /\ op.name \in TypedWrites
    /\ LineWriteFailed(log)
    /\ Count(log, "Write") = 1
    /\ Count(log, "Next") = 1
    /\ Len(op.arg[1]) > 1
    /\ LiveBatches(op.arg) > 1

\* C3: in Series mode a BeginSeries whose key line write fails sets the latch.
C3_BeginSeriesLatches ==
    (op.name = "BeginSeries" /\ m = Series /\ LineWriteFailed(log)) => err # None

\* C4: in Series mode a typed Write leaves the output unchanged and never calls
\* the cursor's Next.
C4_SeriesModeWritesNothing ==
    [][(m = Series /\ op'.name \in TypedWrites) =>
          (out' = out /\ wbuf' = wbuf /\ werr' = werr /\ sent' = sent
             /\ Count(log', "Next") = 0)]_vars

\* a typed Write with a cursor that has pairs, after BeginSeries has produced output
C4_Witness ==
    /\ m = Series
    /\ op.name \in TypedWrites
    /\ LiveBatches(op.arg) > 0
    /\ Len(sent) > 0

\* C5: with the latch set, BeginSeries and the typed Writes do nothing: no fetch
\* from the cursor, no write, scratch buffer, latch and sink unchanged.
C5_LatchedCallsAreNoOps ==
    [][(err # None /\ op'.name \in TypedWrites \cup {"BeginSeries"}) =>
          (log' = <<>> /\ key' = key /\ err' = err /\ wbuf' = wbuf /\ werr' = werr
             /\ out' = out /\ sent' = sent)]_vars

\* a typed Write called on a latched Writer with a cursor that has pairs
C5_Witness ==
    /\ err # None
    /\ op.name \in TypedWrites
    /\ LiveBatches(op.arg) > 0
    /\ log = <<>>

\* C6: in Values mode, unlatched, with a sound sink, a typed Write adds to the
\* sink exactly the lines of the pairs of the batches before the first
\* zero-length batch, in order, fetching once per such batch and once more;
\* the example cursor gives the example output.
C6_OneLinePerPair ==
    [][(m = Values /\ err = None /\ werr = None /\ op'.name \in TypedWrites
           /\ SinkSound(log')) =>
          LET cur == op'.arg
              k == LiveBatches(cur)
          IN /\ out' \o wbuf' = (out \o wbuf) \o LinesOf(TypeOf(op'.name), cur, k)
             /\ Count(log', "Write") = Pairs(cur, k)
             /\ Count(log', "Next") = k + 1
             /\ err' = None
             /\ (op'.name = "WriteIntegerCursor" /\ cur = ExampleCursor) =>
                    out' \o wbuf' = (out \o wbuf) \o ExampleOutput]_vars

\* a typed Write that met a zero-length batch with a batch after it
C6_Witness ==
    /\ m = Values
    /\ err = None
    /\ werr = None
    /\ op.name \in TypedWrites
    /\ LiveBatches(op.arg) = 1
    /\ Len(op.arg) = 3
    /\ Count(log, "Write") = 1
    /\ out \o wbuf = sent

\* C7: the latch, once set, keeps its value through every call, and it is the
\* error the sink first failed with.
C7_LatchKeepsFirstError ==
    [][(err # None => err' = err) /\ (err' # None => err' = werr')]_vars

\* Err called on a latched Writer
C7_Witness == err # None /\ op.name = "Err" /\ ret = err

\* C8: Close flushes (the buffered bytes go to the underlying writer in one
\* write unless the sink has failed before), returns the flush's result, and
\* leaves the latch and the scratch buffer alone.
C8_CloseFlushes ==
    [][op'.name = "Close" =>
          /\ err' = err
          /\ key' = key
          /\ ret' = werr'
          /\ (werr # None => (ret' = werr /\ log' = <<>>))
          /\ (werr = None /\ Len(wbuf) > 0) =>
                (Len(log') = 1 /\ log'[1].e = "U" /\ log'[1].len = Len(wbuf))
          /\ ret' = None => (wbuf' = <<>> /\ out' = out \o wbuf)]_vars

\* a Close on a latched Writer
C8_Witness == op.name = "Close" /\ err # None /\ ret # None /\ log = <<>>

\* C9 as claimed: after Close, Err() is none only if everything emitted was
\* delivered, and is non-none if an underlying write failed.
C9_ErrDecidesSuccess ==
    op.name = "Close" => ((err = None => out = sent) /\ (ufail => err # None))

\* C9 amended: after Close, Close's result decides: if it is none, everything
\* emitted was delivered and the latch is unset; if an underlying write failed,
\* it is non-none.
C9_CloseDecidesSuccess ==
    op.name = "Close" =>
        ((ret = None => (out = sent /\ err = None)) /\ (ufail => ret # None))

\* a Close whose flush failed on an unlatched Writer
C9_Witness ==
    op.name = "Close" /\ ufail /\ err = None /\ ret # None /\ out # sent /\ Len(log) = 1

\* C10: after a failed write or flush the underlying writer's output is made of
\* whole lines.
C10_NoPartialLine == werr # None => (Len(out) = 0 \/ out[Len(out)] = "\n")

\* the key line BeginSeries makes of a series
KeyLineOf(in) ==
    EscapeBytes(in.name)
        \o (IF Len(in.tags) = 0 THEN <<>>
            ELSE AppendHashKey(<<>>, in.tags))
        \o <<" ">> \o EscapeBytes(in.field) \o <<"\n">>

\* C11: the mode never changes; a Series-mode encoder emits bytes only in
\* BeginSeries, and then one key line; a Values-mode encoder emits bytes only
\* in typed Writes, and BeginSeries writes nothing there.
C11_ModeFixesWhatIsEmitted ==
    [][/\ m' = m
       /\ (m = Series /\ sent' # sent) =>
              (op'.name = "BeginSeries" /\ sent' = sent \o KeyLineOf(op'.arg))
       /\ (m = Values /\ sent' # sent) => op'.name \in TypedWrites
       /\ (m = Values /\ op'.name = "BeginSeries") =>
              (log' = <<>> /\ sent' = sent /\ wbuf' = wbuf /\ out' = out)]_vars

\* BeginSeries called on an unlatched Values-mode encoder that has emitted points
C11_Witness ==
    m = Values /\ op.name = "BeginSeries" /\ err = None /\ werr = None /\ Len(sent) > 0

\* C12: in Values mode with the latch unset, a typed Write on a cursor whose
\* first batch has length zero fetches once, writes nothing and leaves the
\* latch unset.
C12_EmptyCursor ==
    [][(m = Values /\ err = None /\ op'.name \in TypedWrites
           /\ LiveBatches(op'.arg) = 0) =>
          (/\ log' = <<Event("Next", 0, 0, None)>>
           /\ sent' = sent /\ out' = out /\ wbuf' = wbuf
           /\ err' = None)]_vars

\* a typed Write on a cursor that has a batch after its first, zero-length one
C12_Witness ==
    /\ m = Values
    /\ err = None
    /\ op.name \in TypedWrites
    /\ Len(op.arg) = 2
    /\ Len(op.arg[1]) = 0
    /\ Len(log) = 1

\* C13: NewBucket returns no error and leaves mode, sink, scratch buffer and
\* latch as they are, whatever start and end: a set latch stays set.
C13_NewBucketSameEncoder ==
    [][op'.name = "NewBucket" =>
          (/\ ret' = None
           /\ log' = <<>>
           /\ UNCHANGED <<m, err, key, wbuf, werr, out, sent, ufail>>)]_vars

\* NewBucket called on a latched encoder with bytes still buffered
C13_Witness ==
    op.name = "NewBucket" /\ err # None /\ Len(wbuf) > 0 /\ op.arg[1] # op.arg[2]

\* C16: a typed Write that was not skipped returns only after a zero-length
\* batch or a failed line write; when no line write fails it has fetched once
\* for each of the k batches before the first zero-length one and once more.
C16_DrainsToExhaustion ==
    (op.name \in TypedWrites /\ m = Values /\ Len(log) > 0) =>
        LET last == log[Len(log)]
            k == LiveBatches(op.arg)
        IN \/ /\ last.e = "Next"
              /\ last.len = 0
              /\ ~LineWriteFailed(log)
              /\ Count(log, "Next") = k + 1
              /\ Count(log, "Write") = Pairs(op.arg, k)
           \/ /\ last.e = "Write"
              /\ last.err # None

\* a typed Write that fetched two batches with pairs and then a zero-length one
C16_Witness ==
    /\ op.name \in TypedWrites
    /\ m = Values
    /\ Count(log, "Next") = 3
    /\ log[Len(log)].e = "Next"
    /\ Count(log, "U") > 0

\* the pairs of the batches before the first zero-length batch, in order
RECURSIVE FlatPairs(_)
FlatPairs(cur) ==
    IF Len(cur) = 0 \/ Len(Head(cur)) = 0 THEN <<>> ELSE Head(cur) \o FlatPairs(Tail(cur))

\* the lines of the first n of those pairs
RECURSIVE FirstLines(_, _, _)
FirstLines(typ, cur, n) ==
    IF n = 0 THEN <<>>
    ELSE FirstLines(typ, cur, n - 1)
             \o PointLine(typ, FlatPairs(cur)[n].v, FlatPairs(cur)[n].t)

\* C17: what is handed to the sink for a record is the record's bytes and no
\* more: BeginSeries hands over the key line of its series and leaves that key
\* as the visible content of the scratch buffer, a typed Write hands over the
\* line of each pair it gets to, whatever longer record the buffer held before.
C17_NoResidue ==
    [][/\ (op'.name = "BeginSeries" /\ m = Series /\ err = None) =>
              /\ sent' = sent \o KeyLineOf(op'.arg)
              /\ KeyBytes(key') \o <<"\n">> = KeyLineOf(op'.arg)
       /\ (op'.name \in TypedWrites /\ m = Values /\ err = None) =>
              /\ Count(log', "Write") <= Len(FlatPairs(op'.arg))
              /\ sent' = sent \o FirstLines(TypeOf(op'.name), op'.arg, Count(log', "Write"))]_vars

\* a key shorter than an earlier one: the backing array holds bytes past its length
C17_Witness ==
    /\ m = Series
    /\ op.name = "BeginSeries"
    /\ key.len < Len(key.arr)
    /\ Len(log) = 2
    /\ Len(sent) > key.len + 1

IsPrefix(a, b) == Len(a) <= Len(b) /\ a = SubSeq(b, 1, Len(a))

\* what a call hands to a sink that never fails
IdealEmission(mode, call) ==
    IF mode = Series /\ call.name = "BeginSeries" THEN KeyLineOf(call.arg)
    ELSE IF mode = Values /\ call.name \in TypedWrites
    THEN FirstLines(TypeOf(call.name), call.arg, Len(FlatPairs(call.arg)))
    ELSE <<>>

\* C18 as it stands after each call: the underlying writer's output is a prefix
\* of what the calls made so far hand to a sink that never fails. In steps: the
\* output only grows and is a prefix of the bytes handed over; a call hands
\* over a prefix of what it would hand to a sound sink, all of it unless the
\* latch is set when it returns; and with the latch set nothing is handed over.
C18_OutputIsPrefix ==
    [][/\ IsPrefix(out, out')
       /\ IsPrefix(out', sent')
       /\ IsPrefix(out' \o wbuf', sent')
       /\ IsPrefix(sent', sent \o IdealEmission(m, op'))
       /\ (sent' # sent \o IdealEmission(m, op')) => err' # None
       /\ err # None => sent' = sent]_vars

\* the output stops inside a line while the calls have handed over more
C18_Witness ==
    /\ ufail
    /\ Len(out) > 0
    /\ out[Len(out)] # "\n"
    /\ Len(sent) > Len(out) + Len(wbuf)

\* C14: after Addr is called, its result is the listener's address if the
\* Service has a listener and that listener is open, and nil otherwise; in
\* particular Addr returns nil after a successful Open followed by Close.
C14_AddrNilWhenClosed ==
    sop.name = "Addr" =>
        sop.ret = (IF ln # 0 /\ lns[ln] = "open" THEN ListenerAddr(ln) ELSE NilAddr)

\* the receptions from the channel of what goroutine g sent
ReceivedFrom(g) == {i \in 1..Len(rcvd) : rcvd[i].from = g}

\* C19: a serve goroutine whose http.Serve returned the error of a closed
\* listener sends nothing and is done, its listener being closed; one whose
\* http.Serve returned another error is blocked in the send until a receiver
\* has read that error, exactly once, and only then is done.
C19_ClosureIsNotReported ==
    \A g \in 1..Len(gs) :
        /\ gs[g].pc \in {"start", "serving"} =>
              (gs[g].e = NoErr /\ ReceivedFrom(g) = {})
        /\ gs[g].pc = "sending" =>
              (gs[g].e # NoErr /\ ~ContainsClosed(gs[g].e) /\ ReceivedFrom(g) = {})
        /\ gs[g].pc = "done" =>
              /\ gs[g].e # NoErr
              /\ IF ContainsClosed(gs[g].e)
                 THEN ReceivedFrom(g) = {} /\ lns[gs[g].l] = "closed"
                 ELSE /\ Cardinality(ReceivedFrom(g)) = 1
                      /\ \A i \in ReceivedFrom(g) : rcvd[i].e = gs[g].e

\* one goroutine is done after Close without a send, another after a receiver
\* read its error, and a third party is not needed: nothing else was received
C19_Witness ==
    /\ \E g \in 1..Len(gs) : gs[g].pc = "done" /\ gs[g].e = ErrClosed
    /\ \E g \in 1..Len(gs) : gs[g].pc = "done" /\ gs[g].e = ErrAccept
    /\ Len(rcvd) = 1

====
